---------------------------- MODULE Spec2Model ----------------------------
(***************************************************************************)
(* Screen-space incident-light integrator (IIR_SSRT_RenderLayer) and its   *)
(* orthonormal frame builder (create_frame), modelled as a state machine:  *)
(* construction of the layer, then forward calls.                          *)
(*                                                                         *)
(* Numbers.  A float is modelled by an exact rational <<n, d>> (d > 0,     *)
(* lowest terms); <<1, 0>> stands for a non-finite value (inf/nan).  No    *)
(* square root is rounded:                                                 *)
(*  - a pixel of the camera buffer v is the record [vec, len2] standing    *)
(*    for the vector vec / sqrt(len2);                                     *)
(*  - the view direction in the local frame (wi before and after the clamp) *)
(*    is the record [sq], each component c held as its signed square       *)
(*    c * |c|: c = sign(q) * sqrt(|q|) for a stored q; the renormalised wi  *)
(*    is [sq, by]: the vector of sq divided by its own length (by =        *)
(*    "length", the length being the square root of the sum of the |q|) or *)
(*    by eps (by = "eps");                                                 *)
(*  - the length of a normal is defined where it is rational.              *)
(*                                                                         *)
(* Tensors.  An input tensor is a shape (bn, row, col) and one fill value  *)
(* (a constant image); per-pixel tensors derived from the camera are       *)
(* functions over the pixel grid, indexed from 0 as in the source.         *)
(***************************************************************************)
EXTENDS Integers, Sequences, FiniteSets, TLC

VARIABLES pc, self, buf, given, args, lm, ret, loc

vars == <<pc, self, buf, given, args, lm, ret, loc>>

-----------------------------------------------------------------------------
(* Bounds of the model *)

MaxDim == 3
MaxSpp == 2

(* Program constants *)

MaskEpsInv == 1000000
ClampInv == 1000
NormEpsInv == 1000000
FrameEpsInv == 1000000
TanhGain == 10
Sentinel == -1

-----------------------------------------------------------------------------
(* Rational arithmetic standing for the float arithmetic of the source *)

Abs(x) == IF x < 0 THEN -x ELSE x

Max2(a, b) == IF a >= b THEN a ELSE b

Min2(a, b) == IF a <= b THEN a ELSE b

RECURSIVE GCD(_, _)
GCD(a, b) == IF b = 0 THEN a ELSE GCD(b, a % b)

NaN == <<1, 0>>

IsNum(a) == a[2] # 0

R(n, d) ==
    IF d = 0 THEN NaN
    ELSE LET s == IF d < 0 THEN -1 ELSE 1
             g == GCD(Abs(n), Abs(d))
         IN  <<(s * n) \div g, (s * d) \div g>>

Zero == <<0, 1>>

One == <<1, 1>>

RNeg(a) == IF IsNum(a) THEN <<-a[1], a[2]>> ELSE NaN

RAbs(a) == IF IsNum(a) THEN <<Abs(a[1]), a[2]>> ELSE NaN

RAdd(a, b) ==
    IF ~IsNum(a) \/ ~IsNum(b) THEN NaN
    ELSE LET g == GCD(a[2], b[2])
             l == (a[2] \div g) * b[2]
         IN  R(a[1] * (l \div a[2]) + b[1] * (l \div b[2]), l)

RSub(a, b) == RAdd(a, RNeg(b))

RMul(a, b) ==
    IF ~IsNum(a) \/ ~IsNum(b) THEN NaN
    ELSE LET g1 == GCD(Abs(a[1]), b[2])
             g2 == GCD(Abs(b[1]), a[2])
         IN  R((a[1] \div g1) * (b[1] \div g2), (a[2] \div g2) * (b[2] \div g1))

RInv(a) ==
    IF ~IsNum(a) \/ a[1] = 0 THEN NaN
    ELSE IF a[1] < 0 THEN <<-a[2], -a[1]>> ELSE <<a[2], a[1]>>

RDiv(a, b) == RMul(a, RInv(b))

RLt(a, b) == IsNum(a) /\ IsNum(b) /\ a[1] * b[2] < b[1] * a[2]

RLe(a, b) == IsNum(a) /\ IsNum(b) /\ a[1] * b[2] <= b[1] * a[2]

(* a < 1/T for a threshold given by its inverse T; no product can overflow *)
RLtInv(a, T) == IsNum(a) /\ a[1] <= (a[2] - 1) \div T

RMax(a, b) == IF RLt(a, b) THEN b ELSE a

(* floor of the square root of a natural number, by bisection *)
RECURSIVE SqrtBisect(_, _, _)
SqrtBisect(n, lo, hi) ==
    IF hi - lo <= 1 THEN lo
    ELSE LET mid == (lo + hi) \div 2
         IN  IF mid * mid <= n THEN SqrtBisect(n, mid, hi)
             ELSE SqrtBisect(n, lo, mid)

ISqrt(n) == SqrtBisect(n, 0, Min2(n + 1, 46341))

(* 3-vectors of rationals *)

Vec(x, y, z) == <<x, y, z>>

VecI(x, y, z, d) == <<R(x, d), R(y, d), R(z, d)>>

Dot(u, w) == RAdd(RAdd(RMul(u[1], w[1]), RMul(u[2], w[2])), RMul(u[3], w[3]))

Cross(u, w) ==
    <<RSub(RMul(u[2], w[3]), RMul(u[3], w[2])),
      RSub(RMul(u[3], w[1]), RMul(u[1], w[3])),
      RSub(RMul(u[1], w[2]), RMul(u[2], w[1]))>>

VSub(u, w) == <<RSub(u[1], w[1]), RSub(u[2], w[2]), RSub(u[3], w[3])>>

VScale(u, k) == <<RMul(u[1], k), RMul(u[2], k), RMul(u[3], k)>>

LCM(a, b) == (a \div GCD(a, b)) * b

(* the length sqrt(n) / d of a vector whose components, over the common   *)
(* denominator d, have squared numerators summing to n; r is the floor of  *)
(* sqrt(n).  Defined for the vectors of rational length only.              *)
RationalLength(n, r, d) == CASE r * r = n -> R(r, d)

(* Euclidean length of a vector of rational length *)
VNorm(u) ==
    LET d == LCM(LCM(u[1][2], u[2][2]), u[3][2])
        i1 == u[1][1] * (d \div u[1][2])
        i2 == u[2][1] * (d \div u[2][2])
        i3 == u[3][1] * (d \div u[3][2])
    IN  RationalLength(i1 * i1 + i2 * i2 + i3 * i3,
                       ISqrt(i1 * i1 + i2 * i2 + i3 * i3), d)

(* torch.nn.functional.normalize(n, dim=1, eps): n / max(||n||, eps), for  *)
(* the vectors of rational length                                          *)
Normalize(u, epsInv) ==
    LET len == VNorm(u)
        den == IF RLtInv(len, epsInv) THEN <<1, epsInv>> ELSE len
    IN  VScale(u, RInv(den))

-----------------------------------------------------------------------------
(* create_frame: orthonormal basis from the surface normal (Duff et al.) *)

(* variant of FrameSgn without the sign switch: the branch-free form that  *)
(* is singular at the south pole                                           *)
FrameSgnPositive(z) == One

(* line 266: torch.where(z >= 0, 1.0, -1.0); a NaN z is not >= 0 *)
FrameSgn(z) == IF RLe(Zero, z[3]) THEN One ELSE RNeg(One)

FrameDen(z) == RAdd(FrameSgn(z), z[3])

(* lines 266-271 on the normalised normal z *)
FrameAxes(z, sgn, a, b) ==
    [x |-> Vec(RAdd(One, RMul(RMul(RMul(sgn, z[1]), z[1]), a)),
               RMul(sgn, b),
               RMul(RNeg(sgn), z[1])),
     y |-> Vec(b,
               RAdd(sgn, RMul(RMul(z[2], z[2]), a)),
               RNeg(z[2])),
     z |-> z,
     den |-> FrameDen(z)]

FrameA(z) == RDiv(RNeg(One), FrameDen(z))

FrameB(z, a) == RMul(RMul(z[1], z[2]), a)

FrameOf(z, a) == FrameAxes(z, FrameSgn(z), a, FrameB(z, a))

FrameOn(z) == FrameOf(z, FrameA(z))

create_frame(n) == FrameOn(Normalize(n, FrameEpsInv))

-----------------------------------------------------------------------------
(* IIR_SSRT_RenderLayer.__init__: the camera buffers *)

Origin == Vec(Zero, Zero, Zero)

(* np.tan(fov / 180 * pi / 2), defined for the one field of view whose     *)
(* half-angle tangent is rational: tan(45 deg) = 1                         *)
TanHalfFov(fov) == CASE fov = 90 -> One

(* np.linspace(-range, range, num)[j] *)
Linspace(range, num, j) ==
    IF num = 1 THEN RNeg(range)
    ELSE RAdd(RNeg(range), RMul(R(2 * j, num - 1), range))

Pixels(h, w) == (0 .. h - 1) \X (0 .. w - 1)

(* v = (cameraPos - pCoord) / sqrt(max(|cameraPos - pCoord|^2, 1e-12)),     *)
(* as the record [vec, len2] standing for vec / sqrt(len2).  A non-zero    *)
(* squared length the model can hold is above 1e-12; a zero one leaves the *)
(* numerator zero, whatever the divisor.                                   *)
ViewVector(cameraPos, p) ==
    LET d == VSub(cameraPos, p)
        s == Dot(d, d)
    IN  [vec |-> d, len2 |-> IF s = Zero THEN One ELSE s]

PCoordAt(imWidth, imHeight, fov, i, j) ==
    LET xRange == TanHalfFov(fov)
        yRange == RMul(R(imHeight, imWidth), xRange)
    IN  Vec(Linspace(xRange, imWidth, j),
            Linspace(yRange, imHeight, imHeight - 1 - i),
            RNeg(One))

(* The exception __init__ raises, or "ok": line 38 divides by float(imWidth), *)
(* lines 39-40 hand imWidth and imHeight to np.linspace, which refuses a      *)
(* negative count.  Nothing else about the configuration is looked at.        *)
InitStatus(imWidth, imHeight, brdf_type, spp) ==
    IF imWidth = 0 THEN "ZeroDivisionError"
    ELSE IF imWidth < 0 \/ imHeight < 0 THEN "ValueError"
    ELSE "ok"

NoBuffers == [v |-> <<>>, pCoord |-> <<>>, up |-> <<>>]

NoConfig == [imWidth |-> 0, imHeight |-> 0, fov |-> 0, brdf_type |-> "",
             spp |-> 0, double_sided |-> FALSE, use_ssrt |-> FALSE,
             use_specular |-> FALSE]

NoTensor == [bn |-> 0, row |-> 0, col |-> 0, val |-> <<>>]

NoArgs == [albedo |-> NoTensor, rough |-> NoTensor, metal |-> NoTensor,
           normal |-> NoTensor, vpos |-> NoTensor]

NoModel == [spp |-> 0, dirs |-> <<>>, L |-> <<>>, pdf |-> Zero]

NoResult == [op |-> "none", status |-> "none", out |-> <<>>]

NoLocals == [reached |-> "none"]

Construct(imWidth, imHeight, fov, brdf_type, spp, double_sided, use_ssrt, use_specular) ==
    /\ pc = "new"
    /\ LET st == InitStatus(imWidth, imHeight, brdf_type, spp)
       IN  IF st = "ok"
           THEN /\ pc' = "ready"
                /\ self' = [imWidth |-> imWidth, imHeight |-> imHeight, fov |-> fov,
                            brdf_type |-> brdf_type, spp |-> spp,
                            double_sided |-> double_sided, use_ssrt |-> use_ssrt,
                            use_specular |-> use_specular]
                /\ buf' = [pCoord |-> [p \in Pixels(imHeight, imWidth) |->
                                         PCoordAt(imWidth, imHeight, fov, p[1], p[2])],
                           v |-> [p \in Pixels(imHeight, imWidth) |->
                                    ViewVector(Origin,
                                        PCoordAt(imWidth, imHeight, fov, p[1], p[2]))],
                           up |-> VecI(0, 1, 0, 1)]
                /\ ret' = [op |-> "init", status |-> "ok", out |-> <<>>]
           ELSE /\ pc' = "failed"
                /\ self' = NoConfig
                /\ buf' = NoBuffers
                /\ ret' = [op |-> "init", status |-> st, out |-> <<>>]
    /\ UNCHANGED <<given, args, lm, loc>>

Init ==
    /\ pc = "new"
    /\ self = NoConfig
    /\ buf = NoBuffers
    /\ given = NoArgs
    /\ args = NoArgs
    /\ lm = NoModel
    /\ ret = NoResult
    /\ loc = NoLocals

-----------------------------------------------------------------------------
(* Shapes: broadcasting, slicing, expanding, indexing *)

(* the broadcast of two dimension sizes, -1 when they are incompatible *)
Bc(a, b) ==
    IF a = -1 \/ b = -1 THEN -1
    ELSE IF a = b THEN a
    ELSE IF a = 1 THEN b
    ELSE IF b = 1 THEN a
    ELSE -1

(* length of t[lo:hi] along a dimension of the given size, lo, hi >= 0 *)
SliceLen(size, lo, hi) == Max2(0, Min2(hi, size) - Min2(lo, size))

(* t.expand(..., target, ...) accepts a dimension of size target or 1 *)
ExpandOk(size, target) == size = target \/ size = 1

(* Python indexing with a possibly negative index *)
IndexOk(i, size) == -size <= i /\ i < size

Wrap(i, size) == IF i < 0 THEN i + size ELSE i

(* index into a dimension that was broadcast from size 1 *)
BIdx(i, size) == IF size = 1 THEN 0 ELSE i

-----------------------------------------------------------------------------
(* forward, lines 77-85 and 109-113: the shape check and the clipping window *)

ShapeCheck(cfg, albedo) ==
    IF albedo.bn # 1 THEN "AssertionError"
    ELSE IF ~(albedo.row = cfg.imHeight /\ albedo.col = cfg.imWidth) THEN "AssertionError"
    ELSE "ok"

(* variant of ClipRadius: the radius of the central square that fits *)
ClipRadiusInscribed(center_x, center_y) == Min2(center_x, center_y)

ClipRadius(center_x, center_y) == Max2(center_x, center_y)

ClipWindow(row, col) ==
    LET center_x == col \div 2
        center_y == row \div 2
        radius == ClipRadius(center_x, center_y)
    IN  [left |-> Max2(center_x - radius, 0),
         right |-> center_x + radius,
         top |-> Max2(center_y - radius, 0),
         bottom |-> center_y + radius]

ClipRows(size, win) == SliceLen(size, win.top, win.bottom)

ClipCols(size, win) == SliceLen(size, win.left, win.right)

-----------------------------------------------------------------------------
(* forward, lines 95-107 and 127-132: directions in the local frame *)

(* line 92: cat([cx, cy, cz], dim=0) of a normal of batch size bn stacks   *)
(* the bn x axes, then the bn y axes, then the bn z axes; after the        *)
(* permute and the split, channel i of fx, fy, fz holds the components of  *)
(* stacked axis i.  All batches of a constant image give the same frame.   *)
FrameChannels(F, bn) ==
    [i \in 1 .. 3 * bn |-> IF i <= bn THEN F.x ELSE IF i <= 2 * bn THEN F.y ELSE F.z]

(* d[0] * fx + d[1] * fy + d[2] * fz: channel i is the dot product of the  *)
(* world direction with stacked axis i                                     *)
ToLocal(d, F, bn) == [i \in 1 .. 3 * bn |-> Dot(d, FrameChannels(F, bn)[i])]

(* lines 131-132: the absolute value of channel 2 *)
Fold(w, double_sided) == IF double_sided THEN [w EXCEPT ![3] = RAbs(@)] ELSE w

(* a < 1/T^2, without forming T^2 *)
RLtInvSq(a, T) == IsNum(a) /\ a[1] <= ((a[2] - 1) \div T) \div T

(* the signed square c * |c| of c = num / sqrt(len2) *)
SignedSquare(num, len2) == RDiv(RMul(num, RAbs(num)), len2)

(* lines 96-98 for one pixel: the components of v in the frame, each as    *)
(* its signed square                                                       *)
ViewLocal(v, F, bn) ==
    [sq |-> [i \in 1 .. 3 * bn |->
               SignedSquare(Dot(v.vec, FrameChannels(F, bn)[i]), v.len2)]]

(* lines 99-100 on signed squares *)
FoldView(w, double_sided) ==
    IF double_sided THEN [sq |-> [w.sq EXCEPT ![3] = RAbs(@)]] ELSE w

(* line 102 on signed squares: z < 1e-6 iff z * |z| < 1e-12 *)
WiMask(w) == IF RLtInvSq(w.sq[3], MaskEpsInv) THEN 0 ELSE 1

(* variant of ClampZ that leaves z as it is *)
ClampZOff(w) == w

(* line 105 on signed squares: z < 1e-3 iff z * |z| < 1e-6, and the clamped *)
(* z is 1e-3, of square 1e-6                                                *)
ClampZ(w) ==
    [sq |-> [w.sq EXCEPT ![3] = IF RLtInvSq(@, ClampInv) THEN R(1, ClampInv * ClampInv)
                                ELSE @]]

(* the length of w is below eps = 1/epsInv: the sum of the |q| is below    *)
(* eps^2, which needs every |q| to be                                      *)
RECURSIVE SumAbs(_, _)
SumAbs(q, n) == IF n = 0 THEN Zero ELSE RAdd(SumAbs(q, n - 1), RAbs(q[n]))

BelowEps(w, epsInv) ==
    /\ \A k \in DOMAIN w.sq : RLtInvSq(RAbs(w.sq[k]), epsInv)
    /\ RLtInvSq(SumAbs(w.sq, Len(w.sq)), epsInv)

(* functional.normalize(w, dim=1, eps=1e-6) on signed squares: w divided   *)
(* by max(length, eps), the division left unevaluated                      *)
NormalizeExact(w, epsInv) ==
    [sq |-> w.sq, by |-> IF BelowEps(w, epsInv) THEN "eps" ELSE "length"]

(* line 236: ndl = clamp(wo[2:], min=0), the one channel of a wo of three *)
CosineTerm(wo) == RMax(wo[3], Zero)

(* line 236: the number of channels of wo[:, :, 2:, ...] *)
NdlChannels(bn) == SliceLen(3 * bn, 2, 3 * bn)

-----------------------------------------------------------------------------
(* Tensor storage.  The heap is the sequence of the storages alive in a    *)
(* call, each with its content; a tensor is held by the index of its       *)
(* storage.  The first storages are the registered buffers of the instance *)
(* and the five tensors of the caller; every other one is allocated during *)
(* the call.  An in-place write changes the content of the storage of the  *)
(* tensor written, and so of every tensor that shares it.                  *)

BufV == 1
BufPCoord == 2
BufUp == 3
ArgAlbedo == 4
ArgRough == 5
ArgMetal == 6
ArgNormal == 7
ArgVpos == 8

HeapOf(bufs, A) ==
    <<bufs.v, bufs.pCoord, bufs.up,
      A.albedo.val, A.rough.val, A.metal.val, A.normal.val, A.vpos.val>>

(* a plain assignment, basic indexing, a slice, permute, view, unsqueeze   *)
(* or expand of tensor t: a tensor on the storage of t                     *)
TView(t) == t

(* an arithmetic result (+, *, unary -, abs, clamp, where, normalize) on   *)
(* tensor t: a tensor on a storage of its own                              *)
TMap(h, t) == Len(h) + 1

(* the heap once the storage of tensor t holds content c *)
Put(h, t, c) == IF t = Len(h) + 1 THEN Append(h, c) ELSE [h EXCEPT ![t] = c]

(* variant of WiStore: wi is wi_world itself, on the storage of the buffer *)
WiStoreAliased(h) == TView(BufV)

(* lines 95-98: wi_world = self.v, then wi = sums of products of slices of *)
(* wi_world with fx, fy, fz                                                *)
WiStore(h) == TMap(h, TView(BufV))

(* lines 128-130: wo = sums of products of slices of wo_emitter *)
WoStore(h, wo_emitter) == TMap(h, TView(wo_emitter))

(* line 171: depth = -vpos[0, ...].permute(1, 2, 0) *)
DepthStore(h) == TMap(h, TView(TView(ArgVpos)))

(* line 179: depth = -depth *)
DepthNegStore(h, depth) == TMap(h, depth)

(* lines 180-185: (pos4[:, :-1].view(row, col, 3) + 1) * 0.5 *)
DepthProjStore(h, depth) == TMap(h, TView(TView(depth)))

-----------------------------------------------------------------------------
(* Collaborators outside the rendering core: the lighting model, the BRDF  *)
(* kernels and the screen-space tracer, by their interface                 *)

Unused == <<0, 0>>

(* the arguments a collaborator writes in place: by their interface the    *)
(* lighting model, the BRDF kernels and the tracer compute a result from   *)
(* their arguments and write none of them                                  *)
CalleeWrites(callee, tensors) == {}

(* the result of a collaborator is a tensor on a storage of its own *)
CalleeResult(h) == Len(h) + 1

Clobbered == <<"clobbered">>

(* the heap after a call that was handed the tensors given *)
AfterCall(h, callee, tensors) ==
    LET RECURSIVE UpTo(_)
        UpTo(n) ==
            IF n = 0 THEN <<>>
            ELSE Append(UpTo(n - 1),
                        IF n \in CalleeWrites(callee, tensors) THEN Clobbered ELSE h[n])
    IN  UpTo(Len(h))

(* lighting_model.sample_direction: spp world directions for every pixel   *)
(* of vpos, shape (1, spp, 3, h, w)                                        *)
SampleShape(lmodel, vpos) == [spp |-> lmodel.spp, rows |-> vpos.row, cols |-> vpos.col]

(* lighting_model(direction=...): one radiance per direction handed in;    *)
(* sample s of the model carries radiance L[s]                             *)
RadianceCount(ndirections) == ndirections

(* an opaque BRDF response: the kernel applied to its arguments *)
BrdfTerm(fn, kind, albedo, rough, metal, wi, wo) ==
    [fn |-> fn, kind |-> kind, albedo |-> albedo, rough |-> rough, metal |-> metal,
     wi |-> wi, wo |-> wo]

(* the BRDF kernels broadcast their arguments against each other *)
BrdfExtent(sizes) ==
    LET RECURSIVE All(_)
        All(k) == IF k = 0 THEN 1 ELSE Bc(All(k - 1), sizes[k])
    IN  All(Len(sizes))

(* ssrt(...): every ray resolves to a hit coordinate (x, y), a hit flag    *)
(* and a depth discrepancy dz                                              *)
TraceOf(tr, k) == IF k = tr.ray THEN tr.first ELSE tr.rest

NoTrace == [ray |-> 0, first |-> <<>>, rest |-> <<>>]

-----------------------------------------------------------------------------
(* forward, lines 134-156 and 165-256 *)

(* lines 141-149: the BRDF branch taken for a configured brdf_type *)
BrdfBranch(brdf_type) ==
    IF brdf_type = "ggx" THEN "ggx"
    ELSE IF brdf_type = "diffuse" THEN "diffuse"
    ELSE "disney"

(* lines 142, 145, 148: the arguments of the pdf kernel of the branch,     *)
(* out of (albedo, rough, metal, wi, wo), and the line that calls it       *)
PdfArgs(kind, s) ==
    IF kind = "ggx" THEN s
    ELSE IF kind = "diffuse" THEN <<s[4], s[5]>>
    ELSE <<s[2], s[3], s[4], s[5]>>

PdfLine(kind) == IF kind = "ggx" THEN 142 ELSE IF kind = "diffuse" THEN 145 ELSE 148

(* lines 143, 146, 149: the arguments of the eval kernel, and its line *)
EvalArgs(kind, s) == IF kind = "diffuse" THEN <<s[1], s[4], s[5]>> ELSE s

EvalLine(kind) == IF kind = "ggx" THEN 143 ELSE IF kind = "diffuse" THEN 146 ELSE 149

(* lines 138, 166-168: the number of directions handed to the lighting     *)
(* model; with tracing only the last sample's directions are kept          *)
DirectionCount(use_ssrt, spp, rows, cols) ==
    IF use_ssrt THEN 1 * rows * cols ELSE spp * rows * cols

(* lines 166, 232: the sample whose radiance fills slot s of the light     *)
LightSample(use_ssrt, spp, s) == IF use_ssrt THEN spp ELSE s

(* lines 203, 206: the sentinel on a miss, then the flip from (x, y) to (i, j) *)
HitIJ(t) == IF t.hit THEN <<t.xy[2], t.xy[1]>> ELSE <<Sentinel, Sentinel>>

(* line 203 alone: the content of ssrt_uv after the write of the sentinel *)
SentinelXY(t) == IF t.hit THEN t.xy ELSE <<Sentinel, Sentinel>>

(* lines 204, 207: tanh(10 * dz), 1 on a miss; the value is one when the   *)
(* flag is set and tanh(arg) otherwise                                     *)
Uncertainty(t) ==
    IF t.hit THEN [one |-> FALSE, arg |-> RMul(<<TanhGain, 1>>, t.dz)]
    ELSE [one |-> TRUE, arg |-> Zero]

(* lines 219-224: t[indices, :, u, v] for one ray, indices being zero *)
Lookup(ij, bn, rows, cols) ==
    IF IndexOk(0, bn) /\ IndexOk(ij[1], rows) /\ IndexOk(ij[2], cols)
    THEN <<Wrap(ij[1], rows), Wrap(ij[2], cols)>>
    ELSE <<"IndexError">>

BrdfPdfFloorInv == 1000
EmitterPdfFloorInv == 1000

(* lines 152-153: the BRDF weighting density, ones clamped from below *)
PdfsBrdf == RMax(One, <<1, BrdfPdfFloorInv>>)

(* lines 234-242: light * ndl / pdf_emitter for one sample *)
LightTerm(radiance, wo, pdf) ==
    RDiv(RMul(radiance, CosineTerm(wo)), RMax(pdf, <<1, EmitterPdfFloorInv>>))

RECURSIVE SumTo(_, _)
SumTo(f, n) == IF n = 0 THEN Zero ELSE RAdd(SumTo(f, n - 1), f[n])

(* torch.mean over the sample axis *)
Mean(f, n) == IF n = 0 THEN NaN ELSE RMul(SumTo(f, n), R(1, n))

(* what a forward call leaves behind when nothing has been computed yet *)
(* tens names the storage of each local tensor, 0 while it is unbound *)
FwdStart(bufs, A) ==
    [status |-> "ok", line |-> 0, win |-> ClipWindow(0, 0), irow |-> 0, icol |-> 0,
     frame |-> <<>>, view |-> <<>>, wo |-> <<>>, worow |-> 0, wocol |-> 0,
     traced |-> FALSE, nrays |-> 0, hits |-> <<>>, unc |-> <<>>, normals |-> <<>>,
     ndir |-> 0, nlight |-> 0, out |-> <<>>,
     heap |-> HeapOf(bufs, A),
     tens |-> [wi |-> 0, wn |-> 0, wo_emitter |-> 0, wo |-> 0, depth |-> 0,
               proj |-> 0, ssrt_uv |-> 0, uncertainty |-> 0]]

Raise(st, status, line) == [st EXCEPT !.status = status, !.line = line]

(* lines 244-256: the averages over the sample axis and the returned tuple *)
Outputs(cfg, lmodel, A, st, orow, ocol, light) ==
    LET kind == BrdfBranch(cfg.brdf_type)
        spp == lmodel.spp
        wiAt(q) == st.view[<<st.win.top + BIdx(q[1], st.irow),
                             st.win.left + BIdx(q[2], st.icol)>>].wi
        rough == IF kind = "diffuse" THEN Unused ELSE A.rough.val
        metal == IF kind = "diffuse" THEN Unused ELSE A.metal.val
        color(fn) == [q \in Pixels(orow, ocol) |->
                        [s \in 1 .. spp |->
                            [brdf |-> BrdfTerm(fn, kind, A.albedo.val, rough, metal,
                                               wiAt(q), st.wo[s]),
                             pdf |-> PdfsBrdf,
                             light |-> light[s]]]]
    IN  [colorDiffuse |-> color("eval_diff"),
         colorSpec |-> IF cfg.use_specular THEN color("eval_spec")
                       ELSE [q \in Pixels(orow, ocol) |-> <<>>],
         wi_mask |-> [q \in Pixels(st.irow, st.icol) |->
                        st.view[<<st.win.top + q[1], st.win.left + q[2]>>].mask],
         shading |-> [q \in Pixels(orow, ocol) |-> Mean(light, spp)]]

(* lines 232-256: radiance, cosine, densities, the averages; st is the     *)
(* call so far, vrow and vcol the extent of vpos at line 234               *)
Integrate(cfg, lmodel, A, st, smp, vrow, vcol) ==
    LET spp == lmodel.spp
        ndir == DirectionCount(cfg.use_ssrt, spp, smp.rows, smp.cols)
        nlight == RadianceCount(ndir)
        prow == Bc(vrow, smp.rows)
        pcol == Bc(vcol, smp.cols)
        orow == Bc(Bc(st.irow, st.worow), prow)
        ocol == Bc(Bc(st.icol, st.wocol), pcol)
        h1 == AfterCall(st.heap, "lighting_model", <<TView(st.tens.wo_emitter)>>)
        h2 == AfterCall(h1, "pdf_direction", <<TView(ArgVpos), st.tens.wo_emitter>>)
        st1 == [st EXCEPT !.ndir = ndir, !.nlight = nlight, !.heap = h2]
    IN  IF prow = -1 \/ pcol = -1 THEN Raise(st1, "RuntimeError", 234)
        ELSE IF nlight # spp * st.irow * st.icol THEN Raise(st1, "RuntimeError", 239)
        ELSE IF orow = -1 \/ ocol = -1 \/ Bc(3, NdlChannels(A.normal.bn)) = -1
             THEN Raise(st1, "RuntimeError", 242)
        ELSE [st1 EXCEPT !.out =
                Outputs(cfg, lmodel, A, st, orow, ocol,
                        [s \in 1 .. spp |->
                           LightTerm(lmodel.L[LightSample(cfg.use_ssrt, spp, s)],
                                     st.wo[s], lmodel.pdf)])]

(* lines 198-230 once the shapes of lines 170-197 fit: the rays, their     *)
(* hits and the per-hit lookups                                            *)
TraceRays(A, tr, st, win, hits, unc) ==
    LET row == A.albedo.row
        col == A.albedo.col
        nrays == st.nrays
        h0 == AfterCall(st.heap, "ssrt",
                        <<st.tens.proj, ArgNormal, TView(st.tens.wo_emitter),
                          TView(st.tens.proj)>>)
        ssrt_uv == CalleeResult(h0)
        h1 == Put(h0, ssrt_uv, [k \in 1 .. nrays |-> TraceOf(tr, k).xy])
        h2 == Put(h1, ssrt_uv, [k \in 1 .. nrays |-> SentinelXY(TraceOf(tr, k))])
        uncertainty == TMap(h2, CalleeResult(h0))
        h3 == Put(h2, uncertainty,
                  [k \in 1 .. nrays |-> [one |-> FALSE, arg |-> RMul(<<TanhGain, 1>>,
                                                                    TraceOf(tr, k).dz)]])
        h4 == Put(h3, uncertainty, unc)
        st2 == [st EXCEPT !.traced = TRUE, !.hits = hits, !.unc = h4[uncertainty],
                          !.heap = h4, !.tens.ssrt_uv = ssrt_uv,
                          !.tens.uncertainty = uncertainty]
        normals == [k \in 1 .. nrays |->
                      Lookup(hits[k], A.normal.bn, A.normal.row, A.normal.col)]
        kdbn == Bc(1, A.metal.bn)
        kdrow == Bc(row, A.metal.row)
        kdcol == Bc(col, A.metal.col)
    IN  IF ~(ExpandOk(A.vpos.bn, 1)
             /\ ExpandOk(ClipRows(A.vpos.row, win), st.irow)
             /\ ExpandOk(ClipCols(A.vpos.col, win), st.icol))
        THEN Raise(st2, "RuntimeError", 216)
        ELSE IF \E k \in 1 .. nrays : normals[k] = <<"IndexError">>
             THEN Raise(st2, "IndexError", 219)
        ELSE IF \E k \in 1 .. nrays :
                    Lookup(hits[k], A.rough.bn, A.rough.row, A.rough.col) = <<"IndexError">>
             THEN Raise(st2, "IndexError", 220)
        ELSE IF kdrow = -1 \/ kdcol = -1 \/ kdbn = -1
             THEN Raise(st2, "RuntimeError", 221)
        ELSE IF \E k \in 1 .. nrays : Lookup(hits[k], kdbn, kdrow, kdcol) = <<"IndexError">>
             THEN Raise(st2, "IndexError", 223)
        ELSE [st2 EXCEPT !.normals = normals]

(* line 171: the negation, on one pixel value *)
DepthNeg(val) == Vec(RNeg(val[1]), RNeg(val[2]), RNeg(val[3]))

(* line 172: depth[:, :, :-1] = 0 *)
DepthZeroXY(depth) == Vec(Zero, Zero, depth[3])

(* lines 173-174: the extreme of the z channel of a constant image *)
DepthMax(depth) == depth[3]

(* line 175: depth /= dmax *)
DepthDivide(depth, dmax) ==
    Vec(RDiv(depth[1], dmax), RDiv(depth[2], dmax), RDiv(depth[3], dmax))

(* lines 165-230: the tracing block; st is the call so far *)
TraceBlock(cfg, A, tr, st, smp) ==
    LET row == A.albedo.row
        col == A.albedo.col
        vpos == A.vpos
        win == st.win
        h0 == st.heap
        depth == DepthStore(h0)
        h1 == Put(h0, depth, DepthNeg(h0[TView(TView(ArgVpos))]))
        h2 == Put(h1, depth, DepthZeroXY(h1[depth]))
        dmax == DepthMax(h2[depth])
        h3 == Put(h2, depth, DepthDivide(h2[depth], dmax))
        neg == DepthNegStore(h3, depth)
        h4 == Put(h3, neg, DepthNeg(h3[depth]))
        proj == DepthProjStore(h4, neg)
        h5 == Put(h4, proj, [projected |-> h4[neg], inf |-> "inf"])
        h6 == Put(h5, proj, [h5[proj] EXCEPT !.inf = "one"])
        st1 == [st EXCEPT !.heap = h3, !.tens.depth = depth,
                          !.nrays = smp.rows * smp.cols]
        st2 == [st1 EXCEPT !.heap = h6, !.tens.proj = proj]
    IN  IF cfg.imHeight = 0 THEN Raise(st, "ZeroDivisionError", 170)
        ELSE IF ~IndexOk(0, vpos.bn) THEN Raise(st, "IndexError", 171)
        ELSE IF vpos.row * vpos.col = 0
             THEN Raise([st EXCEPT !.heap = h2, !.tens.depth = depth], "RuntimeError", 173)
        ELSE IF dmax = Zero THEN Raise(st1, "ZeroDivisionError", 176)
        ELSE IF vpos.row * vpos.col # col * row
             THEN Raise([st1 EXCEPT !.heap = h4], "RuntimeError", 181)
        ELSE IF ~(ExpandOk(ClipRows(row, win), st.irow) /\ ExpandOk(ClipCols(col, win), st.icol))
             THEN Raise(st2, "RuntimeError", 196)
        ELSE TraceRays(A, tr, st2, win,
                       [k \in 1 .. smp.rows * smp.cols |-> HitIJ(TraceOf(tr, k))],
                       [k \in 1 .. smp.rows * smp.cols |-> Uncertainty(TraceOf(tr, k))])

(* lines 232-256 after the tracing block: an exception raised in the block *)
(* ends the call; otherwise vpos is the clipped one of line 215            *)
AfterTrace(cfg, lmodel, A, st, smp) ==
    IF st.status # "ok" THEN st
    ELSE Integrate(cfg, lmodel, A, st, smp,
                   ClipRows(A.vpos.row, st.win), ClipCols(A.vpos.col, st.win))

(* lines 134-256; st holds the frame, the view directions and the incident *)
(* directions                                                              *)
Shade(cfg, lmodel, A, tr, st, smp) ==
    LET albedo == A.albedo
        win == st.win
        kind == BrdfBranch(cfg.brdf_type)
        rows == <<ClipRows(albedo.row, win), ClipRows(A.rough.row, win),
                  ClipRows(A.metal.row, win), st.irow, st.worow>>
        cols == <<ClipCols(albedo.col, win), ClipCols(A.rough.col, win),
                  ClipCols(A.metal.col, win), st.icol, st.wocol>>
        bns == <<albedo.bn, A.rough.bn, A.metal.bn, 1, 1>>
        brow == BrdfExtent(EvalArgs(kind, rows))
        bcol == BrdfExtent(EvalArgs(kind, cols))
        bbn == BrdfExtent(EvalArgs(kind, bns))
        tensors == <<TView(ArgAlbedo), TView(ArgRough), TView(ArgMetal),
                     TView(st.tens.wn), st.tens.wo>>
        stK == [st EXCEPT !.heap = AfterCall(AfterCall(@, "pdf", PdfArgs(kind, tensors)),
                                             "eval", EvalArgs(kind, tensors))]
    IN  IF \E sizes \in {rows, cols, bns} : BrdfExtent(PdfArgs(kind, sizes)) = -1
        THEN Raise(st, "RuntimeError", PdfLine(kind))
        ELSE IF brow = -1 \/ bcol = -1 \/ bbn = -1
             THEN Raise(st, "RuntimeError", EvalLine(kind))
        ELSE IF ~(ExpandOk(brow, st.irow) /\ ExpandOk(bcol, st.icol) /\ ExpandOk(bbn, 1))
             THEN Raise(st, "RuntimeError", 155)
        ELSE IF cfg.use_ssrt
             THEN AfterTrace(cfg, lmodel, A, TraceBlock(cfg, A, tr, stK, smp), smp)
        ELSE Integrate(cfg, lmodel, A, stK, smp, A.vpos.row, A.vpos.col)

(* lines 127-138: the incident directions; line 138 reshapes them to      *)
(* (lighting_model.spp, -1, 3), which no tensor fits when spp is 0         *)
Sample(cfg, lmodel, A, tr, st, smp) ==
    LET worow == Bc(smp.rows, A.normal.row)
        wocol == Bc(smp.cols, A.normal.col)
        samples == 1 .. lmodel.spp
        h0 == AfterCall(st.heap, "sample_direction", <<TView(ArgVpos), TView(ArgNormal)>>)
        wo_emitter == CalleeResult(h0)
        h1 == Put(h0, wo_emitter, lmodel.dirs)
        wo == WoStore(h1, wo_emitter)
        h2 == Put(h1, wo, [s \in samples |-> ToLocal(h1[wo_emitter][s], st.frame, A.normal.bn)])
        h3 == IF cfg.double_sided
              THEN Put(h2, wo, [s \in samples |-> Fold(h2[wo][s], TRUE)])
              ELSE h2
        st1 == [st EXCEPT !.worow = worow, !.wocol = wocol, !.wo = h3[wo],
                          !.heap = h3, !.tens.wo_emitter = wo_emitter, !.tens.wo = wo]
    IN  IF worow = -1 \/ wocol = -1
        THEN Raise([st EXCEPT !.heap = h1, !.tens.wo_emitter = wo_emitter],
                   "RuntimeError", 128)
        ELSE IF lmodel.spp = 0 THEN Raise(st1, "RuntimeError", 138)
        ELSE Shade(cfg, lmodel, A, tr, st1, smp)

(* lines 109-124: the clipping of wi and wi_mask *)
View(cfg, lmodel, A, tr, st, wr, wc) ==
    Sample(cfg, lmodel, A, tr,
           [st EXCEPT !.irow = ClipRows(wr, st.win),
                      !.icol = ClipCols(wc, st.win)],
           SampleShape(lmodel, A.vpos))

(* lines 91-107: the frame and the view direction of every pixel; lines    *)
(* 100 and 105 write into the tensor wi, line 106 makes a new one          *)
Frame(cfg, lmodel, A, tr, st, F) ==
    LET row == A.albedo.row
        col == A.albedo.col
        wr == Bc(row, A.normal.row)
        wc == Bc(col, A.normal.col)
        px == Pixels(wr, wc)
        h0 == st.heap
        wi_world == TView(BufV)
        wi == WiStore(h0)
        h1 == Put(h0, wi,
                  [p \in px |-> ViewLocal(h0[wi_world][<<BIdx(p[1], row), BIdx(p[2], col)>>],
                                          F, A.normal.bn)])
        h2 == IF cfg.double_sided
              THEN Put(h1, wi, [p \in px |-> FoldView(h1[wi][p], TRUE)])
              ELSE h1
        wi_mask == [p \in px |-> WiMask(h2[wi][p])]
        h3 == Put(h2, wi, [p \in px |-> ClampZ(h2[wi][p])])
        wn == TMap(h3, wi)
        h4 == Put(h3, wn, [p \in px |-> NormalizeExact(h3[wi][p], NormEpsInv)])
        st0 == [st EXCEPT !.frame = F]
    IN  IF wr = -1 \/ wc = -1 THEN Raise(st0, "RuntimeError", 96)
        ELSE IF ~IndexOk(2, 3 * A.normal.bn)
             THEN Raise([st0 EXCEPT !.heap = h1, !.tens.wi = wi], "IndexError",
                        IF cfg.double_sided THEN 100 ELSE 105)
        ELSE View(cfg, lmodel, A, tr,
                  [st0 EXCEPT !.heap = h4, !.tens.wi = wi, !.tens.wn = wn,
                              !.view = [p \in px |->
                                          [pre |-> h2[wi][p], mask |-> wi_mask[p],
                                           clamped |-> h3[wi][p], wi |-> h4[wn][p]]]],
                  wr, wc)

(* forward(lighting_model, albedo, rough, metal, normal, vpos) *)
Fwd(cfg, bufs, lmodel, A, tr) ==
    IF ShapeCheck(cfg, A.albedo) # "ok"
    THEN Raise(FwdStart(bufs, A), ShapeCheck(cfg, A.albedo),
               IF A.albedo.bn # 1 THEN 78 ELSE 79)
    ELSE Frame(cfg, lmodel, A, tr,
               [FwdStart(bufs, A) EXCEPT !.win = ClipWindow(A.albedo.row, A.albedo.col)],
               create_frame(A.normal.val))

(* one call of forward: what the buffers of the instance and the tensors   *)
(* of the caller hold afterwards is read off the heap                      *)
Forward(lmodel, A, tr) ==
    /\ pc = "ready"
    /\ \E r \in {Fwd(self, buf, lmodel, A, tr)} :
           /\ buf' = [v |-> r.heap[BufV], pCoord |-> r.heap[BufPCoord],
                      up |-> r.heap[BufUp]]
           /\ args' = [albedo |-> [A.albedo EXCEPT !.val = r.heap[ArgAlbedo]],
                       rough |-> [A.rough EXCEPT !.val = r.heap[ArgRough]],
                       metal |-> [A.metal EXCEPT !.val = r.heap[ArgMetal]],
                       normal |-> [A.normal EXCEPT !.val = r.heap[ArgNormal]],
                       vpos |-> [A.vpos EXCEPT !.val = r.heap[ArgVpos]]]
           /\ ret' = [op |-> "forward", status |-> r.status, out |-> r.out]
           /\ loc' = [r EXCEPT !.out = <<>>]
    /\ given' = A
    /\ lm' = lmodel
    /\ UNCHANGED <<pc, self>>

-----------------------------------------------------------------------------
(* Inputs the specifications draw from *)

BrdfKinds == {"ggx", "diffuse", "disney"}

T(bn, row, col, val) == [bn |-> bn, row |-> row, col |-> col, val |-> val]

Up == VecI(0, 0, 1, 1)

Down == VecI(0, 0, -1, 1)

Side == VecI(1, 0, 0, 1)

(* unit, non-unit, axis-aligned, zero and shorter-than-eps normals, all of *)
(* rational length                                                         *)
NormalVals ==
    {Up, Down, Side, VecI(0, 1, 0, 1), VecI(1, 2, 2, 1), VecI(2, -1, -2, 3),
     VecI(0, 0, 0, 1), VecI(0, 0, 1, 10000000), VecI(0, -3, 0, 10000000)}

(* a lighting model with n samples per pixel: the last sample points along *)
(* d, the others up; sample s carries radiance s                           *)
LModel(n, d) ==
    [spp |-> n, dirs |-> [s \in 1 .. n |-> IF s = n THEN d ELSE Up],
     L |-> [s \in 1 .. n |-> R(s, 1)], pdf |-> One]

(* a call whose five tensors have the shapes given and the usual contents *)
Call(sa, sr, sm, sn, sv, nval) ==
    [albedo |-> T(sa[1], sa[2], sa[3], R(1, 2)),
     rough |-> T(sr[1], sr[2], sr[3], R(1, 2)),
     metal |-> T(sm[1], sm[2], sm[3], Zero),
     normal |-> T(sn[1], sn[2], sn[3], nval),
     vpos |-> T(sv[1], sv[2], sv[3], VecI(0, 0, -2, 1))]

(* a call whose five tensors all have the constructed extent *)
MatchingCall(nval) ==
    LET m == <<1, self.imHeight, self.imWidth>>
    IN  Call(m, m, m, m, m, nval)

Hit(x, y, dz) == [hit |-> TRUE, xy |-> <<x, y>>, dz |-> dz]

Miss == [hit |-> FALSE, xy |-> <<0, 0>>, dz |-> Zero]

Trace(first, rest) == [ray |-> 1, first |-> first, rest |-> rest]

-----------------------------------------------------------------------------
(* Specification of construction: every configuration, and the first call *)
(* on the instances that were built                                        *)

ConstructAny ==
    \E w \in -1 .. MaxDim, h \in -1 .. MaxDim, k \in BrdfKinds \cup {"phong"},
       n \in 0 .. MaxSpp :
        Construct(w, h, 90, k, n, TRUE, FALSE, FALSE)

ForwardDefault ==
    /\ ret.op = "init"
    /\ \E n \in 0 .. 1 : Forward(LModel(n, Up), MatchingCall(Up), NoTrace)

NextInit == ConstructAny \/ ForwardDefault

SpecInit == Init /\ [][NextInit]_vars

(* Specification of shapes: the first call, with tensors that match the    *)
(* constructed extent or not, with and without tracing                     *)

ConstructSized ==
    \E w \in 1 .. MaxDim, h \in 1 .. MaxDim, k \in {"ggx", "diffuse"}, tr \in BOOLEAN :
        Construct(w, h, 90, k, 1, TRUE, tr, FALSE)

ForwardShaped ==
    LET h == self.imHeight
        w == self.imWidth
        m == <<1, h, w>>
    IN  /\ ret.op = "init"
        /\ \E sa \in {m, <<2, h, w>>, <<1, h + 1, w>>},
              sr \in {m, <<1, h + 1, w + 1>>, <<2, h, w>>},
              sn \in {m, <<1, 1, 1>>, <<2, h, w>>},
              sv \in {m, <<2, h, w>>},
              n \in 1 .. MaxSpp :
               Forward(LModel(n, Up), Call(sa, sr, m, sn, sv, Up), Trace(Miss, Miss))

NextShape == ConstructSized \/ ForwardShaped

SpecShape == Init /\ [][NextShape]_vars

(* Specification of directions: the first call, over normals and incident  *)
(* directions                                                              *)

ConstructCamera ==
    \E w \in 1 .. MaxDim, h \in 1 .. MaxDim, ds \in BOOLEAN :
        Construct(w, h, 90, "diffuse", 1, ds, FALSE, FALSE)

ForwardLit ==
    /\ ret.op = "init"
    /\ \E nval \in NormalVals, n \in 1 .. MaxSpp, d \in {Up, Down, Side} :
           Forward(LModel(n, d), MatchingCall(nval), NoTrace)

NextDir == ConstructCamera \/ ForwardLit

SpecDir == Init /\ [][NextDir]_vars

(* Specification of tracing: any sequence of calls, over the tracer's outcomes *)

ConstructTracing ==
    \E w \in 1 .. MaxDim, h \in 1 .. MaxDim, ds \in BOOLEAN, tr \in BOOLEAN :
        Construct(w, h, 90, "ggx", 1, ds, tr, TRUE)

ForwardTraced ==
    \E first \in {Miss, Hit(0, 0, Zero)},
       rest \in {Miss, Hit(self.imWidth - 1, 0, R(1, 10))},
       n \in 1 .. MaxSpp :
        Forward(LModel(n, Up), MatchingCall(VecI(1, 2, 2, 1)),
                IF self.use_ssrt THEN Trace(first, rest) ELSE NoTrace)

NextTrace == ConstructTracing \/ ForwardTraced

SpecTrace == Init /\ [][NextTrace]_vars

-----------------------------------------------------------------------------
(* Properties *)

(* the five tensors of the last call *)
Tensors == {given.albedo, given.rough, given.metal, given.normal, given.vpos}

ShapeMatches(t) == t.bn = 1 /\ t.row = self.imHeight /\ t.col = self.imWidth

Called == ret.op = "forward"

RejectedAtEntry == ret.status = "AssertionError" /\ loc.line \in {78, 79}

(* C1: a forward call is rejected, and produces no output, whenever the     *)
(* batch size is not 1 or the spatial extent of any of albedo, rough,       *)
(* metal, normal, vpos differs from the constructed (imHeight, imWidth);    *)
(* a call whose five tensors all match is not rejected by the shape check.  *)
(* Any exception counts as the rejection here, not only the assertion of    *)
(* lines 78-79.                                                             *)
C1_AnyMismatchRejected ==
    Called =>
        IF \E t \in Tensors : ~ShapeMatches(t)
        THEN ret.status # "ok" /\ ret.out = <<>>
        ELSE ~RejectedAtEntry

ValidConfig(cfg) ==
    /\ cfg.imWidth > 0
    /\ cfg.imHeight > 0
    /\ cfg.spp >= 1
    /\ cfg.brdf_type \in BrdfKinds

(* C2: construction fails for a zero or negative image size, a zero sample  *)
(* count or an unknown BRDF type: every constructed instance, and so every  *)
(* instance forward runs on, has a valid configuration.                     *)
C2_InvalidConfigFails ==
    /\ pc = "ready" => ValidConfig(self)
    /\ pc = "failed" => buf = NoBuffers
    /\ Called => ValidConfig(self)

(* the same call again: same tensors, same lighting model, same outcome of  *)
(* the tracer                                                               *)
SameCallAgain ==
    /\ Called
    /\ given' = given
    /\ lm' = lm
    /\ loc'.hits = loc.hits
    /\ loc'.unc = loc.unc

(* C3: forward keeps no state between calls: it leaves the camera buffers   *)
(* and the caller's tensors as they were, and the same call on the same     *)
(* instance returns the same result again.                                  *)
C3_Stateless ==
    [][pc = "ready" =>
          /\ buf' = buf
          /\ args' = given'
          /\ (SameCallAgain => ret' = ret)]_vars

(* the content lines 96-98 gave the tensor wi, before any write into it *)
WiComputed(p) == ViewLocal(buf.v[p], loc.frame, given.normal.bn)

(* C3: a traced, double-sided call has returned its outputs; the writes of *)
(* lines 100-105 changed the content of wi in place and those of lines     *)
(* 172-175 the content of depth, and neither tensor is on the storage of   *)
(* the buffer v or of the caller's vpos                                    *)
C3_Witness ==
    /\ Called
    /\ ret.status = "ok"
    /\ loc.traced
    /\ self.double_sided
    /\ loc.tens.wi \notin {0, BufV}
    /\ \E p \in DOMAIN loc.view : loc.heap[loc.tens.wi][p] # WiComputed(p)
    /\ loc.tens.depth \notin {0, ArgVpos}
    /\ loc.heap[loc.tens.depth] # DepthNeg(given.vpos.val)
    /\ \E k \in DOMAIN loc.hits : loc.heap[loc.tens.ssrt_uv][k] = <<Sentinel, Sentinel>>

ViewReached == Called /\ loc.view # <<>>

IncidentReached == Called /\ loc.wo # <<>>

(* z >= 1/inv *)
AtLeastInv(z, inv) == IsNum(z) /\ ~RLtInv(z, inv)

(* z >= 1/inv, for z held as its signed square *)
SquareAtLeastInv(q, inv) == IsNum(q) /\ ~RLtInvSq(q, inv)

(* z >= 1/inv for the z of a renormalised wi: z^2 = q3 / (a + q3) with a   *)
(* the sum of |q1| and |q2|; for q3 = 1/inv^2 this is 1 - a >= 1/inv^2     *)
UnitZAtLeastInv(w, inv) ==
    /\ w.by = "length"
    /\ w.sq[3][1] > 0
    /\ IF w.sq[3] = R(1, inv * inv)
       THEN ~RLtInvSq(RSub(One, RAdd(RAbs(w.sq[1]), RAbs(w.sq[2]))), inv)
       ELSE ~RLtInvSq(RDiv(w.sq[3], RAdd(RAdd(RAbs(w.sq[1]), RAbs(w.sq[2])), w.sq[3])), inv)

(* C4: every direction handed to the BRDF, the view direction wi and each   *)
(* incident direction wo, is masked when its local z before the clamp is    *)
(* below 1e-6, and has a local z of at least 1e-3.                          *)
C4_AllDirectionsClamped ==
    /\ ViewReached =>
          \A p \in DOMAIN loc.view :
              /\ RLtInvSq(loc.view[p].pre.sq[3], MaskEpsInv) => loc.view[p].mask = 0
              /\ UnitZAtLeastInv(loc.view[p].wi, ClampInv)
    /\ IncidentReached =>
          \A s \in DOMAIN loc.wo : AtLeastInv(loc.wo[s][3], ClampInv)

(* C4, as the code has it: the view direction wi is masked exactly when its *)
(* local z before the clamp is below 1e-6, its z is at least 1e-3 after the *)
(* clamp and positive after the renormalisation; an incident direction wo   *)
(* is folded when double_sided (z >= 0) and otherwise left as it is, and    *)
(* its cosine is floored at 0.                                              *)
C4_ViewClamped ==
    /\ ViewReached =>
          \A p \in DOMAIN loc.view :
              /\ loc.view[p].mask = 0 <=> RLtInvSq(loc.view[p].pre.sq[3], MaskEpsInv)
              /\ loc.view[p].mask \in {0, 1}
              /\ SquareAtLeastInv(loc.view[p].clamped.sq[3], ClampInv)
              /\ loc.view[p].clamped.sq[1] = loc.view[p].pre.sq[1]
              /\ loc.view[p].clamped.sq[2] = loc.view[p].pre.sq[2]
              /\ loc.view[p].wi.sq[3][1] > 0
              /\ loc.view[p].wi.by = "length"
              /\ self.double_sided => loc.view[p].pre.sq[3][1] >= 0
    /\ IncidentReached =>
          \A s \in DOMAIN loc.wo :
              /\ self.double_sided => loc.wo[s][3][1] >= 0
              /\ CosineTerm(loc.wo[s])[1] >= 0

(* C4: a pixel looks at its surface from behind or edge-on, so that it is   *)
(* masked and clamped, while an incident direction lies in the tangent      *)
(* plane                                                                    *)
C4_Witness ==
    /\ IncidentReached
    /\ \E p \in DOMAIN loc.view :
          /\ loc.view[p].mask = 0
          /\ loc.view[p].clamped.sq[3] = R(1, ClampInv * ClampInv)
    /\ \E s \in DOMAIN loc.wo : loc.wo[s][3] = Zero

FrameReached == Called /\ loc.frame # <<>>

Orthonormal(F) ==
    /\ Dot(F.x, F.x) = One
    /\ Dot(F.y, F.y) = One
    /\ Dot(F.z, F.z) = One
    /\ Dot(F.x, F.y) = Zero
    /\ Dot(F.y, F.z) = Zero
    /\ Dot(F.x, F.z) = Zero
    /\ Cross(F.x, F.y) = F.z

NoSingularity(F) == RLe(One, RAbs(F.den))

(* C5: create_frame returns an orthonormal right-handed basis for every     *)
(* normal, the zero and near-zero normals included, and never divides by    *)
(* zero.                                                                    *)
C5_FrameOrthonormalAll ==
    FrameReached => NoSingularity(loc.frame) /\ Orthonormal(loc.frame)

(* C5, as the code has it: create_frame never divides by zero (the divisor  *)
(* sgn + z is at least 1 in magnitude), and for a normal of length at least *)
(* 1e-6 it returns an orthonormal right-handed basis whose z is the         *)
(* normalised normal.                                                       *)
C5_FrameOrthonormal ==
    FrameReached =>
        /\ NoSingularity(loc.frame)
        /\ ~RLtInv(VNorm(given.normal.val), FrameEpsInv) =>
              /\ Orthonormal(loc.frame)
              /\ VScale(loc.frame.z, VNorm(given.normal.val)) = given.normal.val

(* C5: the frame at the south pole, where the sign switch decides *)
C5_Witness ==
    /\ FrameReached
    /\ given.normal.val = Down
    /\ loc.frame.den = RNeg(R(2, 1))
    /\ Orthonormal(loc.frame)

WindowReached == Called /\ loc.line \notin {78, 79, 96} /\ \A t \in Tensors : ShapeMatches(t)

(* C6: the clipping window has the extent (imHeight, imWidth) of the inputs, *)
(* for odd and for even sizes, so that the clipped tensors and the incident  *)
(* directions agree in shape.                                                *)
C6_WindowIsWholeImage ==
    WindowReached =>
        /\ loc.irow = self.imHeight
        /\ loc.icol = self.imWidth
        /\ loc.worow = loc.irow
        /\ loc.wocol = loc.icol

(* C7: the clipping window is the central square of side min(H, W). *)
C7_CentralSquare ==
    WindowReached =>
        /\ loc.irow = Min2(self.imHeight, self.imWidth)
        /\ loc.icol = Min2(self.imHeight, self.imWidth)

(* 1 when the last row or column of an extent is left out: the extent is    *)
(* odd and its centre is not nearer the origin than the other one           *)
Dropped(size, other) ==
    IF size % 2 = 1 /\ size \div 2 >= other \div 2 THEN 1 ELSE 0

(* C7, as the code has it: the clipping window starts at the origin of the  *)
(* image and spans all of it, except for the last column when W is odd and  *)
(* W div 2 >= H div 2, and the last row when H is odd and H div 2 >= W div 2. *)
C7_WindowFromOrigin ==
    WindowReached =>
        /\ loc.win.top = 0
        /\ loc.win.left = 0
        /\ loc.irow = self.imHeight - Dropped(self.imHeight, self.imWidth)
        /\ loc.icol = self.imWidth - Dropped(self.imWidth, self.imHeight)

(* C7: a wide image of odd width: all rows, all columns but the last *)
C7_Witness ==
    /\ WindowReached
    /\ self.imHeight = 2
    /\ self.imWidth = 3
    /\ loc.irow = 2
    /\ loc.icol = 2

(* C8: with tracing, one direction per pixel is traced, the one of the last *)
(* sample, and forward completes for every lighting model of one or more    *)
(* samples per pixel.                                                       *)
C8_TracedCallCompletes ==
    (WindowReached /\ self.use_ssrt /\ loc.irow = self.imHeight /\ loc.icol = self.imWidth) =>
        /\ ret.status = "ok"
        /\ loc.traced
        /\ loc.nrays = self.imHeight * self.imWidth
        /\ loc.nlight = lm.spp * self.imHeight * self.imWidth

TracedOk == Called /\ ret.status = "ok" /\ loc.traced

OutputAt(r, q) ==
    <<r.out.colorDiffuse[q], r.out.colorSpec[q], r.out.shading[q]>>

(* C9: the tracer's result reaches the outputs: for the same call, the      *)
(* outputs at a pixel whose ray misses differ from the outputs at that      *)
(* pixel when its ray hits with uncertainty 0.                              *)
C9_MissChangesOutput ==
    [][(/\ TracedOk
        /\ TracedOk'
        /\ given' = given
        /\ lm' = lm
        /\ ~loc.unc[1].one
        /\ loc.unc[1].arg = Zero
        /\ loc'.unc[1].one)
       => OutputAt(ret', <<0, 0>>) # OutputAt(ret, <<0, 0>>)]_vars

(* C10: a ray that misses gets the sentinel coordinate, which is off the    *)
(* grid, and uncertainty 1, and the per-hit lookups select no pixel of the  *)
(* grid for it.                                                             *)
C10_MissSelectsNoPixel ==
    (Called /\ loc.traced /\ loc.normals # <<>>) =>
        \A k \in DOMAIN loc.unc :
            loc.unc[k].one =>
                /\ loc.hits[k] \notin Pixels(given.normal.row, given.normal.col)
                /\ loc.normals[k] \notin Pixels(given.normal.row, given.normal.col)

Spec == SpecShape

=============================================================================
